---- MODULE Spec2Model ----
(***************************************************************************)
(* AIChaos chat listeners: the Twitch adapter (twitch_listener.py, a       *)
(* twitchio command bot) and the YouTube adapter (youtube_listener.py, a   *)
(* pytchat polling loop).  A behaviour of this module is one run of one of *)
(* the two programs: Init chooses the platform and its configuration.      *)
(*                                                                         *)
(* Text is a sequence of symbols, each symbol a fixed run of characters    *)
(* ("http://", "evil.com", " ", ...), chosen so that the URL pattern, the   *)
(* substring replacement and the host extraction of the source act on     *)
(* whole symbols.  Money is counted in hundredths.  The clock is a         *)
(* natural number of seconds.                                              *)
(***************************************************************************)
EXTENDS Integers, Sequences, FiniteSets, TLC

VARIABLES
    platform,        \* "twitch" or "youtube": which program this run is
    config,          \* the module-level settings of that program
    session,         \* life cycle of the adapter
    now,             \* time.time(), in seconds
    user_cooldowns,  \* author -> time of the last accepted command
    handlers,        \* Twitch: the chaos coroutines, each at an await or idle
    batch,           \* YouTube: items of the polled batch still to handle
    last,            \* what the most recent step did (history)
    probe            \* one call of filter_urls and a second call on its result

vars == <<platform, config, session, now, user_cooldowns, handlers, batch, last,
          probe>>

----------------------------------------------------------------------------
\* Bounds of the model

MaxTime == 5
MaxLatency == 1
MaxBatch == 2
\* longest text of the exhaustive part of the filter's inputs
MaxTextLen == 3

\* Settings of the programs

COOLDOWN_SECONDS == 5
MIN_BITS_AMOUNT == 100
\* MIN_SUPER_CHAT_AMOUNT = 1.00, in hundredths
MIN_SUPER_CHAT_AMOUNT == 100
\* MODERATORS = [], and the list of the example in its comment
MODERATORS == {}
ExampleModerators == {"ModName1"}
ALLOWED_DOMAINS == {"i.imgur.com", "imgur.com"}
CHAT_COMMAND == "!chaos"

Authors == {"X", "Y"}
Handlers == {"h1", "h2"}

----------------------------------------------------------------------------
\* Rate limiter

is_on_cooldown_at_least(cooldowns, author, t) ==
    /\ author \in DOMAIN cooldowns
    /\ t - cooldowns[author] <= COOLDOWN_SECONDS

is_on_cooldown(cooldowns, author, t) ==
    /\ author \in DOMAIN cooldowns
    /\ t - cooldowns[author] < COOLDOWN_SECONDS

\* A map that keeps the latest author only
set_cooldown_latest_only(cooldowns, author, t) ==
    [a \in {author} |-> t]

set_cooldown(cooldowns, author, t) ==
    [a \in (DOMAIN cooldowns) \cup {author} |->
        IF a = author THEN t ELSE cooldowns[a]]

----------------------------------------------------------------------------
\* Moderation filter

MARKER == <<"[", "URL", " ", "REMOVED]">>

\* The scheme part of the pattern, http[s]?://
SchemeSym(s) == s \in {"http://", "https://"}

\* Symbols made only of characters of the pattern's class: letters, digits,
\* the range $-_ (which holds . / : [ ] and the upper-case letters), ! * ( ) ,
UrlClassSym(s) == s \notin {" ", "#"}

RECURSIVE RunEnd(_, _)
RunEnd(text, i) ==
    IF i <= Len(text) /\ UrlClassSym(text[i]) THEN RunEnd(text, i + 1) ELSE i - 1

RECURSIVE FindAll(_, _)
FindAll(text, i) ==
    IF i > Len(text) THEN <<>>
    ELSE IF SchemeSym(text[i]) /\ RunEnd(text, i + 1) >= i + 1
         THEN <<SubSeq(text, i, RunEnd(text, i + 1))>>
                  \o FindAll(text, RunEnd(text, i + 1) + 1)
         ELSE FindAll(text, i + 1)

contains_url(text) == FindAll(text, 1)

\* str.replace(old, new): every occurrence, left to right, not overlapping
RECURSIVE Replace(_, _, _)
Replace(text, old, new) ==
    IF Len(old) = 0 \/ Len(text) < Len(old) THEN text
    ELSE IF SubSeq(text, 1, Len(old)) = old
         THEN new \o Replace(SubSeq(text, Len(old) + 1, Len(text)), old, new)
         ELSE <<Head(text)>> \o Replace(Tail(text), old, new)

\* urlparse(url).netloc: what follows the scheme up to the first / ? or #.
\* A symbol that holds a slash ends the host with its part before the slash.
HoldsSlash(s) == s \in {"http://", "https://", "/"}
BeforeSlash(s) == CASE s = "http://" -> <<"http:">>
                    [] s = "https://" -> <<"https:">>
                    [] OTHER -> <<>>

RECURSIVE NetlocOf(_)
NetlocOf(rest) ==
    IF rest = <<>> THEN <<>>
    ELSE IF HoldsSlash(Head(rest)) THEN BeforeSlash(Head(rest))
    ELSE <<Head(rest)>> \o NetlocOf(Tail(rest))

netloc(url) == NetlocOf(Tail(url))

\* urlsplit raises ValueError("Invalid IPv6 URL") for a host with one bracket
\* and not the other
UrlparseRaises(url) ==
    LET syms == {netloc(url)[i] : i \in DOMAIN netloc(url)}
    IN  ("[" \in syms) # ("REMOVED]" \in syms)

\* str.lower() of a symbol
Lower(s) == CASE s = "IMGUR.COM" -> "imgur.com"
              [] s = "URL" -> "url"
              [] s = "REMOVED]" -> "removed]"
              [] OTHER -> s

\* allowed in s, for a lower-cased symbol s
Occurs(allowed, s) ==
    \/ s = allowed
    \/ allowed = "imgur.com" /\ s \in {"i.imgur.com", "notimgur.com"}

\* An allowlist that wants the host to be an allowed domain
is_allowed_exact(url) ==
    \E allowed \in ALLOWED_DOMAINS : netloc(url) = <<allowed>>

\* any(allowed in domain for allowed in ALLOWED_DOMAINS), domain the
\* lower-cased netloc
is_allowed(url) ==
    \E allowed \in ALLOWED_DOMAINS :
        \E i \in DOMAIN netloc(url) : Occurs(allowed, Lower(netloc(url)[i]))

\* A loop body that leaves a URL alone where urlparse raises
must_remove_fail_open(url) == ~UrlparseRaises(url) /\ ~is_allowed(url)

\* The body of the loop: the URL is removed where it is not allowed, and in
\* the bare except where urlparse raises
must_remove(url) == UrlparseRaises(url) \/ ~is_allowed(url)

RECURSIVE FilterLoop(_, _, _)
FilterLoop(urls, filtered_message, filtered) ==
    IF urls = <<>> THEN [text |-> filtered_message, filtered |-> filtered]
    ELSE IF must_remove(Head(urls))
         THEN FilterLoop(Tail(urls), Replace(filtered_message, Head(urls), MARKER), TRUE)
         ELSE FilterLoop(Tail(urls), filtered_message, filtered)

\* A filter that raises its flag and hands back the text as it came
filter_urls_flag_only(message, is_mod) ==
    IF ~config.BLOCK_URLS THEN [text |-> message, filtered |-> FALSE]
    ELSE IF is_mod THEN [text |-> message, filtered |-> FALSE]
    ELSE IF contains_url(message) = <<>> THEN [text |-> message, filtered |-> FALSE]
    ELSE [text |-> message,
          filtered |-> FilterLoop(contains_url(message), message, FALSE).filtered]

filter_urls(message, is_mod) ==
    IF ~config.BLOCK_URLS THEN [text |-> message, filtered |-> FALSE]
    ELSE IF is_mod THEN [text |-> message, filtered |-> FALSE]
    ELSE IF contains_url(message) = <<>> THEN [text |-> message, filtered |-> FALSE]
    ELSE FilterLoop(contains_url(message), message, FALSE)

\* Twitch: mod badge, broadcaster, or the manual list
is_moderator_twitch(author, is_mod, is_broadcaster) ==
    (is_mod \/ is_broadcaster) \/ author \in config.MODERATORS

\* YouTube: the manual list or the chat moderator flag
is_moderator_youtube(author, is_mod_flag) ==
    author \in config.MODERATORS \/ is_mod_flag

----------------------------------------------------------------------------
\* Dispatcher

\* What requests.post and response.json() can give back.  kind: "unreachable"
\* (a RequestException of the POST: no connection, timeout), "status_error"
\* (a status code other than 200), and for a 200 the body: "queued" and
\* "ignored" (a JSON object with that status), "other_status" (a JSON object
\* with another status or none), "not_json" (no JSON at all), "json_not_object"
\* (JSON that is no object: null, a list, a string).
\* json_error_caught: response.json() of a body that is not JSON raises
\* requests.exceptions.JSONDecodeError, a RequestException, in requests >= 2.27
\* and a plain ValueError before; the source pins no version.
SafetyMessages == {"too violent"}

Responses ==
    {[kind |-> k, message |-> "", json_error_caught |-> TRUE] :
        k \in {"unreachable", "status_error", "queued", "other_status",
               "not_json", "json_not_object"}}
    \cup {[kind |-> "not_json", message |-> "", json_error_caught |-> FALSE]}
    \cup {[kind |-> "ignored", message |-> m, json_error_caught |-> TRUE] :
            m \in SafetyMessages}

Returned(ret, report, message) == [ret |-> ret, report |-> report, message |-> message]

\* A dispatcher that takes every JSON object of a 200 as accepted
send_to_brain_any_200(response) ==
    CASE response.kind = "unreachable" -> Returned("False", "BackendUnreachable", "")
      [] response.kind = "status_error" -> Returned("False", "BackendError", "")
      [] response.kind \in {"queued", "ignored", "other_status"} ->
            Returned("True", "Queued", "")
      [] response.kind = "not_json" /\ response.json_error_caught ->
            Returned("False", "BackendUnreachable", "")
      [] OTHER -> Returned("Raise", "none", "")

\* ret: what the call gives its caller ("True", "False", "None" for falling off
\* the end of the function, "Raise" for an exception that leaves it).  report:
\* which of the four console lines was printed ("none": no line); message: the
\* backend's message printed with it.
send_to_brain(response) ==
    CASE response.kind = "unreachable" -> Returned("False", "BackendUnreachable", "")
      [] response.kind = "status_error" -> Returned("False", "BackendError", "")
      [] response.kind = "queued" -> Returned("True", "Queued", "")
      [] response.kind = "ignored" ->
            Returned("False", "SafetyRejected", response.message)
      [] response.kind = "other_status" -> Returned("None", "none", "")
      [] response.kind = "not_json" /\ response.json_error_caught ->
            Returned("False", "BackendUnreachable", "")
      [] OTHER -> Returned("Raise", "none", "")   \* ValueError, AttributeError

----------------------------------------------------------------------------
\* Super Chat amount

DigitSyms == {"0", "1", "2", "3", "4", "5", "6", "7", "8", "9"}

DigitValue(c) ==
    CASE c = "0" -> 0 [] c = "1" -> 1 [] c = "2" -> 2 [] c = "3" -> 3 [] c = "4" -> 4
      [] c = "5" -> 5 [] c = "6" -> 6 [] c = "7" -> 7 [] c = "8" -> 8 [] OTHER -> 9

\* A Super Chat without an amount string taken as one of $1.00
format_super_chat_message_default_paid(chat) ==
    <<IF chat.amountString.present THEN chat.amountString.value
      ELSE <<"$", "1", ".", "0", "0">>,
      IF chat.currency.present THEN chat.currency.value ELSE "">>

\* (amount, currency): chat.amountString where the attribute is there, else
\* "Unknown"; chat.currency where the attribute is there, else ""
format_super_chat_message(chat) ==
    <<IF chat.amountString.present THEN chat.amountString.value ELSE <<"Unknown">>,
      IF chat.currency.present THEN chat.currency.value ELSE "">>

IsDigitOrDot(c) == c \in DigitSyms \cup {"."}
IsDot(c) == c = "."
IsDigit(c) == c \in DigitSyms

RECURSIVE IntOf(_)
IntOf(ds) ==
    IF ds = <<>> THEN 0
    ELSE IntOf(SubSeq(ds, 1, Len(ds) - 1)) * 10 + DigitValue(ds[Len(ds)])

RECURSIVE BeforeDot(_)
BeforeDot(s) ==
    IF s = <<>> \/ Head(s) = "." THEN <<>> ELSE <<Head(s)>> \o BeforeDot(Tail(s))

AfterDot(s) ==
    IF Len(BeforeDot(s)) = Len(s) THEN <<>>
    ELSE SubSeq(s, Len(BeforeDot(s)) + 2, Len(s))

\* A parser that reads the digits before the first decimal point where
\* float() raises
amount_value_lenient(amount_str) ==
    LET kept == SelectSeq(amount_str, IsDigitOrDot)
        frac == AfterDot(kept) \o <<"0", "0">>
    IN  IF Len(SelectSeq(kept, IsDigit)) = 0
        THEN 0
        ELSE IF Len(SelectSeq(kept, IsDot)) > 1
        THEN IntOf(BeforeDot(kept)) * 100
        ELSE IntOf(BeforeDot(kept)) * 100 + DigitValue(frac[1]) * 10 + DigitValue(frac[2])

\* float(''.join(filter(isdigit or '.', amount_str))), in hundredths (further
\* decimals cut), and 0 where float() raises: no digit, or two decimal points
amount_value(amount_str) ==
    LET kept == SelectSeq(amount_str, IsDigitOrDot)
        frac == AfterDot(kept) \o <<"0", "0">>
    IN  IF Len(SelectSeq(kept, IsDigit)) = 0 \/ Len(SelectSeq(kept, IsDot)) > 1
        THEN 0
        ELSE IntOf(BeforeDot(kept)) * 100 + DigitValue(frac[1]) * 10 + DigitValue(frac[2])

----------------------------------------------------------------------------
\* Inbound events

PromptClean == <<"zombies">>
PromptEvil == <<"zombies", " ", "http://", "evil.com">>
\* a host that only holds an allowed domain as a part of its name
PromptLookalike == <<"zombies", " ", "http://", "notimgur.com">>
\* two hosts that hold an allowed domain: inside a longer name, and as the
\* front of another domain
PromptLookalikes == <<"http://", "notimgur.com", " ",
                      "http://", "imgur.com", ".attacker.net">>
\* a URL, and a second URL that holds the first one in its path
PromptNested == <<"http://", "evil.com", " ",
                  "http://", "bad.com", "/", "http://", "evil.com">>

\* message.tags: absent, or present without a 'bits' key, or holding bits
NoTags == [present |-> FALSE, has_bits |-> FALSE, bits |-> 0]
TagsNoBits == [present |-> TRUE, has_bits |-> FALSE, bits |-> 0]
Bits(n) == [present |-> TRUE, has_bits |-> TRUE, bits |-> n]
BitsTags == {NoTags, Bits(99), Bits(100)}

\* A chat message that invokes the chaos command
Chaos(author, prompt, tags, is_mod, is_broadcaster) ==
    [echo |-> FALSE, is_chaos |-> TRUE, author |-> author, prompt |-> prompt,
     tags |-> tags, is_mod |-> is_mod, is_broadcaster |-> is_broadcaster]

\* echo: the bot's own message; is_chaos: the message invokes the chaos command.
\* Where bits are required the texts with URLs are left out (the filter runs
\* after the minimum-bits test and does not read the bits), and where they are
\* not required the URLs come without bits.
CommonMessages ==
    {[Chaos("X", PromptClean, NoTags, FALSE, FALSE) EXCEPT !.echo = TRUE],
     [Chaos("X", PromptClean, NoTags, FALSE, FALSE) EXCEPT !.is_chaos = FALSE]}
    \cup {Chaos(a, <<>>, NoTags, FALSE, FALSE) : a \in Authors}
    \cup {Chaos("X", PromptClean, t, FALSE, FALSE) : t \in BitsTags}
    \cup {Chaos("Y", PromptClean, t, FALSE, FALSE) : t \in {TagsNoBits, Bits(100)}}

BitsMessages == CommonMessages \cup {Chaos("X", <<>>, Bits(99), FALSE, FALSE)}

UrlMessages ==
    CommonMessages
    \cup {Chaos("X", PromptEvil, NoTags, r[1], r[2]) :
            r \in {<<FALSE, FALSE>>, <<TRUE, FALSE>>, <<FALSE, TRUE>>}}

TwitchMessages == IF config.REQUIRE_BITS THEN BitsMessages ELSE UrlMessages

\* amountString: absent, or a string
NoAmount == [present |-> FALSE, value |-> <<>>]
Amount(str) == [present |-> TRUE, value |-> str]
AmountOne == Amount(<<"$", "1", ".", "0", "0">>)
AmountStrings == {NoAmount, AmountOne, Amount(<<"$", "0", ".", "5", "0">>),
                  Amount(<<"$", "1", ".", "0", ".", "0">>)}

\* isChatModerator: absent, or a flag
NoFlag == [present |-> FALSE, value |-> FALSE]
ModeratorFlags == {NoFlag, [present |-> TRUE, value |-> FALSE],
                   [present |-> TRUE, value |-> TRUE]}

\* currency: absent, or a string
NoCurrency == [present |-> FALSE, value |-> ""]
Currency(str) == [present |-> TRUE, value |-> str]

\* An item of the chat.  The items of X with an amount carry its currency;
\* those of Y come without the currency attribute.
Item(type, author, message, amountString, isChatModerator) ==
    [type |-> type, author |-> author, message |-> message,
     amountString |-> amountString,
     currency |-> IF amountString.present /\ author = "X"
                  THEN Currency("USD") ELSE NoCurrency,
     isChatModerator |-> isChatModerator]

PromptCommand == <<CHAT_COMMAND, " ">> \o PromptClean

YouTubeItems ==
    {Item("superChat", a, PromptClean, s, NoFlag) : a \in Authors, s \in AmountStrings}
    \cup {Item("superChat", "X", <<>>, AmountOne, NoFlag)}
    \cup {Item("superChat", "X", PromptEvil, AmountOne, f) : f \in ModeratorFlags}
    \cup {Item("superChat", "X", PromptNested, AmountOne, NoFlag)}
    \cup {Item("superChat", "Y", PromptLookalikes, AmountOne, NoFlag)}
    \cup {Item("superChat", "X", PromptCommand, Amount(<<"$", "0", ".", "5", "0">>),
                NoFlag)}
    \cup {Item("textMessage", a, m, NoAmount, NoFlag) :
            a \in Authors,
            m \in {PromptClean, <<CHAT_COMMAND>>, PromptCommand}}
    \cup {Item("textMessage", "X", <<CHAT_COMMAND, " ">> \o PromptEvil, NoAmount, NoFlag)}

\* message.startswith(CHAT_COMMAND)
StartsWithCommand(message) == message # <<>> /\ Head(message) = CHAT_COMMAND

\* str.strip()
RECURSIVE LStrip(_)
LStrip(s) == IF s # <<>> /\ Head(s) = " " THEN LStrip(Tail(s)) ELSE s
RECURSIVE RStrip(_)
RStrip(s) == IF s # <<>> /\ s[Len(s)] = " " THEN RStrip(SubSeq(s, 1, Len(s) - 1)) ELSE s
Strip(s) == RStrip(LStrip(s))

----------------------------------------------------------------------------
\* History: what one step did

\* A chat message sent to the author; reason: the backend's message quoted in it
Msg(kind) == [kind |-> kind, reason |-> ""]

NoCheck == [evaluated |-> FALSE, result |-> FALSE]

\* The evaluation of is_on_cooldown(author) at time t
Check(cooldowns, author, t) ==
    [evaluated |-> TRUE, result |-> is_on_cooldown(cooldowns, author, t)]

NoResponse == [kind |-> "none", message |-> "", json_error_caught |-> TRUE]

\* The payment of an event.  required: a minimum applies to this event;
\* amount: the bits, or the parsed Super Chat amount in hundredths; text: the
\* amount string it was parsed from; gate: "pass" or "fail" where the handler
\* compared the amount with the minimum, "none" where it did not get there.
NoPaid == [gate |-> "none", required |-> FALSE, amount |-> 0, text |-> <<>>]

Paid(path, required, amount, text) ==
    [gate |-> CASE path = "threshold" -> "fail"
                [] path \in {"cooldown", "dispatch"} -> "pass"
                [] OTHER -> "none",
     required |-> required, amount |-> amount, text |-> text]
NoReturn == Returned("none", "none", "")

\* No inbound event was read in the step
NoInput == [type |-> "none"]

\* kind: "event" (the handling of an inbound event ended in this step), "await"
\* (a Twitch handler ran up to an await), or the name of another step.
\* outcome: how the handling ended.  msgs: the chat messages sent to the author
\* in this step.  posts: HTTP POSTs made in this step.
\* qualifies: the event is a command with a prompt, an amount that meets the
\* minimum where one is required, and an author with no cooldown running.
\* check: the evaluation of is_on_cooldown for the event's author, where
\* this step made it.  report: how a step of main's life cycle came out.
\* paid: the payment of the event and what the minimum-amount test made of it.
\* prompt: the text the handler holds for the dispatcher (filtered_prompt)
\* and, in a step with a POST, the text POSTed; was_filtered and is_mod: what
\* filter_urls and is_moderator said of it.  input: the inbound event the step
\* read (the chat message, or the item of the batch).
NoStep ==
    [kind |-> "none", author |-> "none", outcome |-> "none", msgs |-> <<>>,
     posts |-> 0, qualifies |-> FALSE, check |-> NoCheck, response |-> NoResponse,
     returned |-> NoReturn, report |-> "none", paid |-> NoPaid, prompt |-> <<>>,
     was_filtered |-> FALSE, is_mod |-> FALSE, input |-> NoInput]

Step(kind) == [NoStep EXCEPT !.kind = kind]

\* No cooldown of the author is running at time t (read off the map)
NoWindow(cooldowns, author, t) ==
    ~(author \in DOMAIN cooldowns /\ t - cooldowns[author] < COOLDOWN_SECONDS)

----------------------------------------------------------------------------
\* Dispatch and cooldown: "if send_to_brain(...): set_cooldown(author) ... else ..."

Dispatched(posts, returned, cooldowns) ==
    [posts |-> posts, returned |-> returned, cooldowns |-> cooldowns,
     outcome |-> CASE returned.ret = "True" -> "accepted"
                   [] returned.ret = "Raise" -> "raised"
                   [] OTHER -> "failed"]

\* A handler that tries once more after a failure
dispatch_retry(cooldowns, author, response, t_done) ==
    Dispatched(IF send_to_brain(response).ret = "True" THEN 1 ELSE 2,
               send_to_brain(response),
               IF send_to_brain(response).ret = "True"
               THEN set_cooldown(cooldowns, author, t_done) ELSE cooldowns)

\* A handler that records the cooldown whatever the dispatcher returned
dispatch_cooldown_always(cooldowns, author, response, t_done) ==
    Dispatched(1, send_to_brain(response), set_cooldown(cooldowns, author, t_done))

\* A handler that starts a cooldown for a dispatch that was turned down
dispatch_cooldown_on_failure(cooldowns, author, response, t_done) ==
    Dispatched(1, send_to_brain(response),
               IF send_to_brain(response).ret \in {"True", "False"}
               THEN set_cooldown(cooldowns, author, t_done) ELSE cooldowns)

dispatch(cooldowns, author, response, t_done) ==
    Dispatched(1, send_to_brain(response),
               IF send_to_brain(response).ret = "True"
               THEN set_cooldown(cooldowns, author, t_done) ELSE cooldowns)

----------------------------------------------------------------------------
\* Twitch: Bot.event_message and Bot.chaos

\* int(ctx.message.tags.get('bits', 0)) where there are tags, else 0
bits_of(message) ==
    IF message.tags.present
    THEN IF message.tags.has_bits THEN message.tags.bits ELSE 0
    ELSE 0

\* A handler that wants more than the minimum
chaos_path_above_minimum(message, cooldowns, t) ==
    IF message.prompt = <<>> THEN "usage"
    ELSE IF config.REQUIRE_BITS /\ bits_of(message) <= MIN_BITS_AMOUNT THEN "threshold"
    ELSE IF is_on_cooldown(cooldowns, message.author, t) THEN "cooldown"
    ELSE "dispatch"

\* A handler that tests the bits before it looks for a prompt
chaos_path_bits_first(message, cooldowns, t) ==
    IF config.REQUIRE_BITS /\ bits_of(message) < MIN_BITS_AMOUNT THEN "threshold"
    ELSE IF message.prompt = <<>> THEN "usage"
    ELSE IF is_on_cooldown(cooldowns, message.author, t) THEN "cooldown"
    ELSE "dispatch"

\* The branches of chaos up to the cooldown check, in the order of the source
chaos_path(message, cooldowns, t) ==
    IF message.prompt = <<>> THEN "usage"
    ELSE IF config.REQUIRE_BITS /\ bits_of(message) < MIN_BITS_AMOUNT THEN "threshold"
    ELSE IF is_on_cooldown(cooldowns, message.author, t) THEN "cooldown"
    ELSE "dispatch"

\* A handler that skips a command on cooldown without a word
chaos_reply_silent_cooldown(outcome) ==
    CASE outcome \in {"usage", "threshold"} -> <<Msg(outcome)>>
      [] outcome = "accepted" -> <<Msg("ack")>>
      [] outcome = "failed" -> <<Msg("failed")>>
      [] OTHER -> <<>>

\* A handler that acknowledges before it knows the dispatcher's answer
chaos_reply_ack_first(outcome) ==
    CASE outcome \in {"usage", "threshold", "cooldown"} -> <<Msg(outcome)>>
      [] outcome = "accepted" -> <<Msg("ack")>>
      [] outcome = "failed" -> <<Msg("ack"), Msg("failed")>>
      [] OTHER -> <<>>

\* The ctx.send that ends the handling with the given outcome: "usage" (line
\* 164), "threshold" (182), "cooldown" (188), "ack" (205), "failed" (208);
\* none where send_to_brain raised or the message never reached the command
chaos_reply(outcome) ==
    CASE outcome \in {"usage", "threshold", "cooldown"} -> <<Msg(outcome)>>
      [] outcome = "accepted" -> <<Msg("ack")>>
      [] outcome = "failed" -> <<Msg("failed")>>
      [] OTHER -> <<>>

\* A chaos coroutine: idle, or suspended in the ctx.send of line 197 ("l197")
\* or of line 200 ("l200")
Idle == [pc |-> "idle", author |-> "none", prompt |-> <<>>, was_filtered |-> FALSE,
         is_mod |-> FALSE]

FreeSlot == IF handlers["h1"] = Idle THEN "h1" ELSE "h2"

\* An entry point that starts the adapter whatever the settings are
entry_point_unchecked ==
    /\ session = "Start"
    /\ session' = "Connecting"
    /\ last' = Step("start")
    /\ UNCHANGED <<platform, config, now, user_cooldowns, handlers, batch, probe>>

\* if __name__ == "__main__": the entry point refuses to start with the
\* placeholder settings and calls Bot().run() or main() otherwise
entry_point ==
    /\ session = "Start"
    /\ session' = IF config.configured THEN "Connecting" ELSE "ConfigError"
    /\ last' = [Step("start") EXCEPT
                   !.report = IF config.configured THEN "none" ELSE "not_configured"]
    /\ UNCHANGED <<platform, config, now, user_cooldowns, handlers, batch, probe>>

\* bot.run(): the connection is up and events are delivered
bot_run ==
    /\ platform = "twitch" /\ session = "Connecting"
    /\ session' = "Live"
    /\ last' = Step("run")
    /\ UNCHANGED <<platform, config, now, user_cooldowns, handlers, batch, probe>>

\* One chat message arrives: event_message, and chaos up to its first return
\* or, past the cooldown check, up to its first suspension
event_message ==
    /\ platform = "twitch" /\ session = "Live"
    /\ \E message \in TwitchMessages :
      \E path \in {IF message.echo THEN "echo"
                    ELSE IF ~message.is_chaos THEN "not_command"
                    ELSE chaos_path(message, user_cooldowns, now)} :
        LET author == message.author
            is_mod == is_moderator_twitch(author, message.is_mod,
                                          message.is_broadcaster)
            paid == IF message.echo \/ ~message.is_chaos THEN NoPaid
                    ELSE Paid(path, config.REQUIRE_BITS, bits_of(message), <<>>)
            check == IF path \in {"cooldown", "dispatch"}
                     THEN Check(user_cooldowns, author, now) ELSE NoCheck
            qualifies == /\ ~message.echo /\ message.is_chaos
                         /\ message.prompt # <<>>
                         /\ config.REQUIRE_BITS => bits_of(message) >= MIN_BITS_AMOUNT
                         /\ NoWindow(user_cooldowns, author, now)
        IN  IF path = "dispatch"
            THEN /\ handlers[FreeSlot] = Idle
                 /\ \E f \in {filter_urls(message.prompt, is_mod)} :
                     /\ handlers' = [handlers EXCEPT ![FreeSlot] =
                            [pc |-> IF f.filtered THEN "l197" ELSE "l200",
                             author |-> author, prompt |-> f.text,
                             was_filtered |-> f.filtered, is_mod |-> is_mod]]
                     /\ last' = [Step("await") EXCEPT !.author = author,
                                    !.input = message, !.check = check, !.qualifies = qualifies,
                                    !.paid = paid, !.prompt = f.text,
                                    !.was_filtered = f.filtered, !.is_mod = is_mod,
                                    !.msgs = IF f.filtered THEN <<Msg("filtered")>>
                                             ELSE <<Msg("processing")>>]
            ELSE /\ last' = [Step("event") EXCEPT !.author = author,
                                !.input = message,
                                !.outcome = path, !.check = check,
                                !.qualifies = qualifies, !.paid = paid,
                                !.msgs = chaos_reply(path)]
                 /\ UNCHANGED handlers
    /\ UNCHANGED <<platform, config, session, now, user_cooldowns, batch, probe>>

\* The send of line 197 is through: chaos goes on to the send of line 200
chaos_l197(h) ==
    /\ platform = "twitch" /\ session = "Live"
    /\ handlers[h].pc = "l197"
    /\ handlers' = [handlers EXCEPT ![h].pc = "l200"]
    /\ last' = [Step("await") EXCEPT !.author = handlers[h].author,
                   !.msgs = <<Msg("processing")>>]
    /\ UNCHANGED <<platform, config, session, now, user_cooldowns, batch, probe>>

\* The send of line 200 is through: the POST (which blocks the event loop for
\* its latency), the cooldown, the reply
chaos_l200(h) ==
    /\ platform = "twitch" /\ session = "Live"
    /\ handlers[h].pc = "l200"
    /\ \E response \in Responses, latency \in 0..MaxLatency :
      \E d \in {dispatch(user_cooldowns, handlers[h].author, response, now + latency)} :
        LET author == handlers[h].author
        IN  /\ now + latency <= MaxTime
            /\ now' = now + latency
            /\ user_cooldowns' = d.cooldowns
            /\ last' = [Step("event") EXCEPT !.author = author,
                           !.outcome = d.outcome, !.posts = d.posts,
                           !.qualifies = TRUE, !.response = response,
                           !.returned = d.returned,
                           !.prompt = handlers[h].prompt,
                           !.was_filtered = handlers[h].was_filtered,
                           !.is_mod = handlers[h].is_mod,
                           !.msgs = chaos_reply(d.outcome)]
    /\ handlers' = [handlers EXCEPT ![h] = Idle]
    /\ UNCHANGED <<platform, config, session, batch, probe>>

----------------------------------------------------------------------------
\* YouTube: main

\* The text that goes to the filter: the whole Super Chat message, or what
\* follows the command in a regular chat message
youtube_prompt(item) ==
    IF item.type = "superChat" THEN item.message
    ELSE IF StartsWithCommand(item.message) THEN Strip(Tail(item.message))
    ELSE <<>>

\* A loop body that takes a Super Chat of any amount
youtube_path_any_amount(item, cooldowns, t) ==
    IF item.type = "superChat"
    THEN IF is_on_cooldown(cooldowns, item.author, t) THEN "cooldown" ELSE "dispatch"
    ELSE IF config.ALLOW_REGULAR_CHAT /\ StartsWithCommand(item.message)
    THEN IF youtube_prompt(item) = <<>> THEN "usage"
         ELSE IF is_on_cooldown(cooldowns, item.author, t) THEN "cooldown"
         ELSE "dispatch"
    ELSE "not_command"

\* A loop body that takes chat commands whatever ALLOW_REGULAR_CHAT says
youtube_path_chat_always(item, cooldowns, t) ==
    IF item.type = "superChat"
    THEN IF amount_value(format_super_chat_message(item)[1]) >= MIN_SUPER_CHAT_AMOUNT
         THEN IF is_on_cooldown(cooldowns, item.author, t) THEN "cooldown" ELSE "dispatch"
         ELSE "threshold"
    ELSE IF StartsWithCommand(item.message)
    THEN IF youtube_prompt(item) = <<>> THEN "usage"
         ELSE IF is_on_cooldown(cooldowns, item.author, t) THEN "cooldown"
         ELSE "dispatch"
    ELSE "not_command"

\* A loop body that looks at the text before it looks at the type
youtube_path_text_first(item, cooldowns, t) ==
    IF config.ALLOW_REGULAR_CHAT /\ StartsWithCommand(item.message)
    THEN IF Strip(Tail(item.message)) = <<>> THEN "usage"
         ELSE IF is_on_cooldown(cooldowns, item.author, t) THEN "cooldown"
         ELSE "dispatch"
    ELSE IF item.type = "superChat"
    THEN IF amount_value(format_super_chat_message(item)[1]) >= MIN_SUPER_CHAT_AMOUNT
         THEN IF is_on_cooldown(cooldowns, item.author, t) THEN "cooldown" ELSE "dispatch"
         ELSE "threshold"
    ELSE "not_command"

\* The branches of the loop body, in the order of the source
youtube_path(item, cooldowns, t) ==
    IF item.type = "superChat"
    THEN IF amount_value(format_super_chat_message(item)[1]) >= MIN_SUPER_CHAT_AMOUNT
         THEN IF is_on_cooldown(cooldowns, item.author, t) THEN "cooldown" ELSE "dispatch"
         ELSE "threshold"
    ELSE IF config.ALLOW_REGULAR_CHAT /\ StartsWithCommand(item.message)
    THEN IF youtube_prompt(item) = <<>> THEN "usage"
         ELSE IF is_on_cooldown(cooldowns, item.author, t) THEN "cooldown"
         ELSE "dispatch"
    ELSE "not_command"

\* What main sends to the author for an outcome: it only prints to the
\* console, pytchat reads the chat and cannot write to it
main_reply(outcome) == <<>>

\* A connect that reports a bad video id as any other exception
main_connect_one_report ==
    /\ platform = "youtube" /\ session = "Connecting"
    /\ \E result \in {"connected", "InvalidVideoId", "Exception"} :
        /\ session' = CASE result = "connected" -> "Live"
                        [] OTHER -> "TransportError"
        /\ last' = [Step("connect") EXCEPT !.report = result]
    /\ UNCHANGED <<platform, config, now, user_cooldowns, handlers, batch, probe>>

\* pytchat.create(video_id=VIDEO_ID)
main_connect ==
    /\ platform = "youtube" /\ session = "Connecting"
    /\ \E result \in {"connected", "InvalidVideoId", "Exception"} :
        /\ session' = CASE result = "connected" -> "Live"
                        [] result = "InvalidVideoId" -> "InvalidSession"
                        [] OTHER -> "TransportError"
        /\ last' = [Step("connect") EXCEPT !.report = result]
    /\ UNCHANGED <<platform, config, now, user_cooldowns, handlers, batch, probe>>

\* A loop that connects again after the chat has ended
main_poll_restart ==
    /\ platform = "youtube"
    /\ \/ /\ session = "Live" /\ batch.at = "while"
          /\ \/ \E n \in 0..MaxBatch :
                  /\ batch' = [at |-> "for", left |-> n]
                  /\ last' = Step("poll")
                  /\ UNCHANGED session
             \/ \E result \in {"not_alive", "ChatDataFinished", "Exception"} :
                  /\ session' = IF result = "Exception" THEN "TransportError"
                                ELSE "Ended"
                  /\ batch' = [at |-> "exit", left |-> 0]
                  /\ last' = [Step("exit") EXCEPT !.report = result]
       \/ /\ session = "Ended"
          /\ session' = "Live"
          /\ batch' = [at |-> "while", left |-> 0]
          /\ last' = Step("poll")
    /\ UNCHANGED <<platform, config, now, user_cooldowns, handlers, probe>>

\* while chat.is_alive(): ... chat.get().sync_items()
main_poll ==
    /\ platform = "youtube" /\ session = "Live" /\ batch.at = "while"
    /\ \/ \E n \in 0..MaxBatch :
            /\ batch' = [at |-> "for", left |-> n]
            /\ last' = Step("poll")
            /\ UNCHANGED session
       \/ \E result \in {"not_alive", "ChatDataFinished", "Exception"} :
            /\ session' = IF result = "Exception" THEN "TransportError" ELSE "Ended"
            /\ batch' = [at |-> "exit", left |-> 0]
            /\ last' = [Step("exit") EXCEPT !.report = result]
    /\ UNCHANGED <<platform, config, now, user_cooldowns, handlers, probe>>

\* One pass of "for c in chat.get().sync_items()".  An exception that leaves
\* send_to_brain leaves the loop and ends main in "except Exception".
main_item ==
    /\ platform = "youtube" /\ session = "Live"
    /\ batch.at = "for" /\ batch.left > 0
    /\ \E item \in YouTubeItems :
      \E path \in {youtube_path(item, user_cooldowns, now)} :
        LET author == item.author
            check == IF path \in {"cooldown", "dispatch"}
                     THEN Check(user_cooldowns, author, now) ELSE NoCheck
            qualifies == /\ \/ item.type = "superChat"
                            \/ config.ALLOW_REGULAR_CHAT /\ StartsWithCommand(item.message)
                         /\ youtube_prompt(item) # <<>>
                         /\ item.type = "superChat" =>
                                amount_value(format_super_chat_message(item)[1])
                                    >= MIN_SUPER_CHAT_AMOUNT
                         /\ NoWindow(user_cooldowns, author, now)
            is_mod == is_moderator_youtube(author,
                          IF item.isChatModerator.present
                          THEN item.isChatModerator.value ELSE FALSE)
            paid == IF item.type = "superChat"
                    THEN Paid(path, TRUE, amount_value(format_super_chat_message(item)[1]),
                              format_super_chat_message(item)[1])
                    ELSE Paid(path, FALSE, 0, <<>>)
        IN  IF path = "dispatch"
            THEN \E f \in {filter_urls(youtube_prompt(item), is_mod)},
                    event \in {[Step("event") EXCEPT !.author = author,
                                   !.input = item, !.qualifies = qualifies, !.check = check,
                                   !.paid = paid]} :
                 \E response \in Responses, latency \in 0..MaxLatency :
                 \E d \in {dispatch(user_cooldowns, author, response, now + latency)} :
                     /\ now + latency <= MaxTime
                     /\ now' = now + latency
                     /\ user_cooldowns' = d.cooldowns
                     /\ session' = IF d.outcome = "raised" THEN "TransportError"
                                   ELSE session
                     /\ batch' = IF d.outcome = "raised" THEN [at |-> "exit", left |-> 0]
                                 ELSE [batch EXCEPT !.left = @ - 1]
                     /\ last' = [event EXCEPT
                                    !.outcome = d.outcome, !.posts = d.posts,
                                    !.response = response, !.returned = d.returned,
                                    !.prompt = f.text,
                                    !.was_filtered = f.filtered, !.is_mod = is_mod,
                                    !.msgs = main_reply(d.outcome),
                                    !.report = IF d.outcome = "raised" THEN "Exception"
                                               ELSE "none"]
            ELSE /\ batch' = [batch EXCEPT !.left = @ - 1]
                 /\ last' = [Step("event") EXCEPT !.author = author, !.outcome = path,
                                !.input = item, !.check = check, !.qualifies = qualifies,
                                !.paid = paid, !.msgs = main_reply(path)]
                 /\ UNCHANGED <<now, user_cooldowns, session>>
    /\ UNCHANGED <<platform, config, handlers, probe>>

\* time.sleep(1) after the batch
main_sleep ==
    /\ platform = "youtube" /\ session = "Live"
    /\ batch.at = "for" /\ batch.left = 0
    /\ now < MaxTime
    /\ now' = now + 1
    /\ batch' = [at |-> "while", left |-> 0]
    /\ last' = Step("sleep")
    /\ UNCHANGED <<platform, config, session, user_cooldowns, handlers, probe>>

----------------------------------------------------------------------------
\* Time passes while the Twitch event loop waits

Tick ==
    /\ platform = "twitch" /\ session = "Live"
    /\ now < MaxTime
    /\ now' = now + 1
    /\ last' = Step("tick")
    /\ UNCHANGED <<platform, config, session, user_cooldowns, handlers, batch, probe>>

----------------------------------------------------------------------------
\* The filter on its own: the texts, senders and settings it is called with

\* stage: "input" (not yet called), "once" (filter_urls was called on text),
\* "twice" (and called again on its result).  role: the platform's flag of
\* the sender.  out, filtered: the result of the first call; out2, filtered2:
\* the result of the second.
NoProbe ==
    [stage |-> "none", sender |-> "none", role |-> "none", text |-> <<>>,
     is_mod |-> FALSE, out |-> <<>>, filtered |-> FALSE, out2 |-> <<>>,
     filtered2 |-> FALSE]

FilterSyms == {"http://", "evil.com", "imgur.com", " ", "/", "["}

TextsUpTo(n) == UNION {[1..k -> FilterSyms] : k \in 0..n}

\* an allowed URL that holds a disallowed one in its path
PromptNestedAllowed == <<"http://", "evil.com", " ",
                         "http://", "imgur.com", "/", "http://", "evil.com">>

SampleTexts ==
    {PromptClean, PromptEvil, PromptLookalike, PromptNested, PromptNestedAllowed,
     <<"http://", "IMGUR.COM", "/", "a.png">>,
     <<"https://", "i.imgur.com", " ", "https://", "evil.com">>,
     <<"http://", "imgur.com", ".attacker.net">>,
     <<"http://", "evil.com", " ", "http://", "[", "/", "http://", "evil.com">>}

FilterTexts == TextsUpTo(MaxTextLen) \cup SampleTexts

Senders == {"X", "ModName1"}

\* ctx.author.is_mod and ctx.author.is_broadcaster (Twitch), isChatModerator
\* (YouTube)
Roles(p) == IF p = "twitch" THEN {"none", "mod", "broadcaster"} ELSE {"none", "mod"}

\* is_moderator of the platform for a sender with a role
is_moderator(sender, role) ==
    IF platform = "twitch"
    THEN is_moderator_twitch(sender, role = "mod", role = "broadcaster")
    ELSE is_moderator_youtube(sender, role = "mod")

----------------------------------------------------------------------------
\* The module-level settings.  configured: TOKEN and CHANNEL (Twitch) or
\* VIDEO_ID (YouTube) are no longer the placeholders the entry point refuses.

Configs(p) ==
    IF p = "twitch"
    THEN [configured : BOOLEAN, REQUIRE_BITS : BOOLEAN, ALLOW_REGULAR_CHAT : {FALSE},
          BLOCK_URLS : {TRUE}, MODERATORS : {MODERATORS}]
    ELSE [configured : BOOLEAN, REQUIRE_BITS : {FALSE}, ALLOW_REGULAR_CHAT : BOOLEAN,
          BLOCK_URLS : {TRUE}, MODERATORS : {MODERATORS}]

Init ==
    /\ platform \in {"twitch", "youtube"}
    /\ config \in Configs(platform)
    /\ session = "Start"
    /\ now = 0
    /\ user_cooldowns = <<>>
    /\ handlers = [h \in Handlers |-> Idle]
    /\ batch = [at |-> "while", left |-> 0]
    /\ last = NoStep
    /\ probe = NoProbe

Next ==
    \/ entry_point
    \/ bot_run
    \/ event_message
    \/ \E h \in Handlers : chaos_l197(h)
    \/ \E h \in Handlers : chaos_l200(h)
    \/ main_connect
    \/ main_poll
    \/ main_item
    \/ main_sleep
    \/ Tick

Spec == Init /\ [][Next]_vars

----------------------------------------------------------------------------
\* filter_urls called on a text, and called again on what it returned

FilterInit ==
    /\ platform \in {"twitch", "youtube"}
    /\ config \in [configured : {TRUE}, REQUIRE_BITS : {FALSE},
                    ALLOW_REGULAR_CHAT : {FALSE}, BLOCK_URLS : BOOLEAN,
                    MODERATORS : {ExampleModerators}]
    /\ session = "Connecting"
    /\ now = 0
    /\ user_cooldowns = <<>>
    /\ handlers = [h \in Handlers |-> Idle]
    /\ batch = [at |-> "while", left |-> 0]
    /\ last = NoStep
    /\ \E sender \in Senders, role \in Roles(platform), text \in FilterTexts :
        probe = [NoProbe EXCEPT !.stage = "input", !.sender = sender,
                                !.role = role, !.text = text,
                                !.is_mod = is_moderator(sender, role)]

apply_filter ==
    /\ probe.stage = "input"
    /\ \E f \in {filter_urls(probe.text, probe.is_mod)} :
        probe' = [probe EXCEPT !.stage = "once", !.out = f.text,
                               !.filtered = f.filtered]
    /\ UNCHANGED <<platform, config, session, now, user_cooldowns, handlers, batch,
                   last>>

apply_again ==
    /\ probe.stage = "once"
    /\ \E f \in {filter_urls(probe.out, probe.is_mod)} :
        probe' = [probe EXCEPT !.stage = "twice", !.out2 = f.text,
                               !.filtered2 = f.filtered]
    /\ UNCHANGED <<platform, config, session, now, user_cooldowns, handlers, batch,
                   last>>

FilterNext == apply_filter \/ apply_again

FilterSpec == FilterInit /\ [][FilterNext]_vars

----------------------------------------------------------------------------
\* Properties

\* The chat messages that tell an author how the command came out; "filtered"
\* and "processing" are notices on the way
OutcomeKinds == {"usage", "threshold", "cooldown", "ack", "failed"}
RejectionKinds == OutcomeKinds \ {"ack"}

OutcomeMsgs(msgs) == SelectSeq(msgs, LAMBDA m : m.kind \in OutcomeKinds)

\* C1: the cooldown map changes only in a step in which send_to_brain
\* returned True for the event handled, and then only in the entry of that
\* event's author; every other step leaves the whole map as it was.
C1_CooldownOnlyOnAccept ==
    [][user_cooldowns' # user_cooldowns =>
        /\ last'.kind = "event"
        /\ last'.returned.ret = "True"
        /\ last'.author \in DOMAIN user_cooldowns'
        /\ \A a \in Authors \ {last'.author} :
            /\ (a \in DOMAIN user_cooldowns') <=> (a \in DOMAIN user_cooldowns)
            /\ a \in DOMAIN user_cooldowns => user_cooldowns'[a] = user_cooldowns[a]]_vars

\* An accepted command of one author while the other author holds an older entry
C1_Witness ==
    /\ last.kind = "event" /\ last.outcome = "accepted"
    /\ \E a \in DOMAIN user_cooldowns :
        a # last.author /\ user_cooldowns[a] < user_cooldowns[last.author]

\* C2: no POST is made for a command of an author whose recorded cooldown is
\* still running when the command is dispatched (now - T < COOLDOWN_SECONDS).
C2_NoDispatchInsideWindow ==
    [][last'.kind = "event" /\ last'.posts > 0 =>
        NoWindow(user_cooldowns, last'.author, now)]_vars

\* C3: two commands of one author are never both past the cooldown check
\* with neither handled to its end (one handler runs to completion before the
\* next starts).
C3_HandlersDoNotOverlap ==
    \A g, h \in Handlers :
        g # h /\ handlers[g] # Idle /\ handlers[h] # Idle =>
            handlers[g].author # handlers[h].author

\* C4: is_on_cooldown(author) is true exactly when the author has an entry in
\* the map and now minus that entry is less than COOLDOWN_SECONDS.
C4_IsOnCooldownIff ==
    [][last'.check.evaluated =>
        (last'.check.result <=>
            /\ last'.author \in DOMAIN user_cooldowns
            /\ now - user_cooldowns[last'.author] < COOLDOWN_SECONDS)]_vars

\* A check made exactly COOLDOWN_SECONDS after the recorded time, answered false
C4_Witness ==
    /\ platform = "twitch" /\ last.kind = "await" /\ last.check.evaluated
    /\ last.author \in DOMAIN user_cooldowns
    /\ now - user_cooldowns[last.author] = COOLDOWN_SECONDS
    /\ ~last.check.result

C6_MalformedIsNotAccepted ==
    last.kind = "event"
    /\ last.response.kind \in {"status_error", "not_json", "other_status",
                               "json_not_object"} =>
        /\ last.returned.ret \in {"False", "None"}
        /\ last.outcome = "failed"
        /\ session = "Live"

\* C7: a 200 with status ignored and message m gives SafetyRejected with m,
\* and the author is sent a message that is not the one of a failing backend
\* and that carries m; the cooldown is not set.
C7_SafetyRejectionSurfaced ==
    last.kind = "event" /\ last.response.kind = "ignored" =>
        /\ last.returned.report = "SafetyRejected"
        /\ last.returned.message = last.response.message
        /\ \E i \in DOMAIN last.msgs :
            /\ last.msgs[i].kind # "failed"
            /\ last.msgs[i].reason = last.response.message

\* C8: no step makes more than one POST, the step that ends the handling of
\* an event that passed every gate makes exactly one, and no other step makes
\* any: a failed attempt is not repeated.
C8_OneDispatchAttempt ==
    /\ last.posts <= 1
    /\ last.kind = "event" /\ last.qualifies => last.posts = 1
    /\ last.kind # "event" => last.posts = 0

\* A qualifying command whose one attempt failed
C8_Witness ==
    /\ last.kind = "event" /\ last.qualifies
    /\ last.returned.ret = "False" /\ last.posts = 1

\* C9 as stated: in both adapters an event rejected for cooldown, for the
\* threshold, by the backend's safety check or for an unreachable backend
\* sends a message to its author.
C9_NoSilentRejection ==
    /\ last.kind = "event"
    /\ \/ last.outcome \in {"cooldown", "threshold"}
       \/ last.returned.report \in {"SafetyRejected", "BackendUnreachable"}
    => last.msgs # <<>>

\* C9 amended: on Twitch each of these rejections sends exactly one rejection
\* message to the author; on YouTube no message is sent to the author.
C9_TwitchRejectionsAnswered ==
    /\ last.kind = "event"
    /\ \/ last.outcome \in {"cooldown", "threshold"}
       \/ last.returned.report \in {"SafetyRejected", "BackendUnreachable"}
    => IF platform = "twitch"
       THEN Len(last.msgs) = 1 /\ last.msgs[1].kind \in RejectionKinds
       ELSE last.msgs = <<>>

\* A Twitch command rejected for cooldown, with its message
C9_Witness ==
    /\ platform = "twitch" /\ last.kind = "event" /\ last.outcome = "cooldown"
    /\ last.msgs = <<Msg("cooldown")>>

----------------------------------------------------------------------------
\* Threshold gate

\* The minimum of the platform: bits, or hundredths of the Super Chat currency
Minimum == IF platform = "twitch" THEN MIN_BITS_AMOUNT ELSE MIN_SUPER_CHAT_AMOUNT

\* C11: wherever a handler compares the payment with the minimum, the event
\* passes if and only if no payment is required or the amount is at least the
\* minimum: equality passes, every smaller amount fails, and without the
\* requirement every amount passes.
C11_GatePassesIffPaidEnough ==
    last.paid.gate # "none" =>
        (last.paid.gate = "pass"
            <=> (~last.paid.required \/ last.paid.amount >= Minimum))

\* Bits are required and the cheer is of exactly the minimum: it passes
C11_Witness ==
    /\ platform = "twitch" /\ config.REQUIRE_BITS
    /\ last.paid.gate = "pass" /\ last.paid.amount = MIN_BITS_AMOUNT

\* C12: the handling of an event whose payment is required and below the
\* minimum makes no POST, starts no handler that could make one and leaves the
\* cooldown map as it was, whoever the author is and whatever the text.
C12_BelowMinimumNeverDispatched ==
    [][(last'.paid.required /\ last'.paid.amount < Minimum)
          => /\ last'.posts = 0
             /\ user_cooldowns' = user_cooldowns
             /\ handlers' = handlers]_vars

\* A Super Chat of "$0.50" from an author with a cooldown on record is turned
\* away as too low
C12_Witness ==
    /\ platform = "youtube" /\ last.kind = "event"
    /\ last.paid.text = <<"$", "0", ".", "5", "0">> /\ last.paid.amount = 50
    /\ last.outcome = "threshold" /\ last.posts = 0
    /\ last.author \in DOMAIN user_cooldowns

\* An amount string float() cannot read: no digit is left, or more than one
\* decimal point ("Unknown" stands for a missing amountString)
Unparseable(text) ==
    \/ Len(SelectSeq(text, IsDigit)) = 0
    \/ Len(SelectSeq(text, IsDot)) > 1

\* C13: a Super Chat whose amount string cannot be parsed counts as amount
\* zero, is turned away as too low without a POST, and the loop stays Live and
\* goes on with the batch.
C13_UnparseableAmountIsZero ==
    (/\ platform = "youtube" /\ last.kind = "event"
     /\ last.paid.required /\ Unparseable(last.paid.text))
        => /\ last.paid.amount = 0
           /\ last.outcome = "threshold" /\ last.posts = 0
           /\ session = "Live" /\ batch.at = "for"

\* The amount "$1.0.0" was handled, and the batch has a further item
C13_Witness ==
    /\ platform = "youtube" /\ last.kind = "event"
    /\ last.paid.text = <<"$", "1", ".", "0", ".", "0">>
    /\ last.outcome = "threshold"
    /\ session = "Live" /\ batch.at = "for" /\ batch.left > 0

----------------------------------------------------------------------------
\* Moderation filter

\* sub occurs in text
Contains(text, sub) ==
    \E i \in 1..(Len(text) - Len(sub) + 1) : SubSeq(text, i, i + Len(sub) - 1) = sub

\* The URLs of a text, as the pattern of contains_url finds them
UrlsOf(text) == {contains_url(text)[i] : i \in DOMAIN contains_url(text)}

\* The text holds a URL that the loop of filter_urls would remove
HasDisallowedUrl(text) == \E url \in UrlsOf(text) : must_remove(url)

\* The host of the URL is one of the allowed domains
HostInAllowedDomains(url) ==
    /\ ~UrlparseRaises(url)
    /\ Len(netloc(url)) = 1
    /\ Lower(netloc(url)[1]) \in ALLOWED_DOMAINS

\* A call of filter_urls with URL blocking on and a sender who is no moderator
\* has returned
Filtering ==
    /\ probe.stage \in {"once", "twice"}
    /\ config.BLOCK_URLS /\ ~probe.is_mod

\* C14: with URL blocking on, the text POSTed for a sender who is no moderator
\* holds no URL that the filter's own allowlist test turns away.
C14_NoDisallowedUrlDispatched ==
    (last.posts > 0 /\ config.BLOCK_URLS /\ ~last.is_mod)
        => ~HasDisallowedUrl(last.prompt)

\* C15: for a sender who is no moderator, with URL blocking on, every URL of
\* the text whose host is not one of the allowed domains makes the filter
\* raise its flag and is gone from the result, the marker in its place.
C15_DisallowedUrlsRedacted ==
    Filtering =>
        \A url \in UrlsOf(probe.text) :
            ~HostInAllowedDomains(url) =>
                /\ probe.filtered
                /\ ~Contains(probe.out, url)
                /\ Contains(probe.out, MARKER)

\* C16: the filter hands back the text as it came, its flag down, where URL
\* blocking is off, or the sender is a moderator, or every URL of the text has
\* an allowed host; and every URL with an allowed host is still in the result
\* where another URL of the text was redacted.
C16_AllowedTextUntouched ==
    probe.stage \in {"once", "twice"} =>
        /\ (\/ ~config.BLOCK_URLS
            \/ probe.is_mod
            \/ \A url \in UrlsOf(probe.text) : HostInAllowedDomains(url))
              => (probe.out = probe.text /\ ~probe.filtered)
        /\ \A url \in UrlsOf(probe.text) :
              HostInAllowedDomains(url) => Contains(probe.out, url)

\* C17: the filter applied to its own result hands it back as it is, its
\* flag down.
C17_FilterIdempotent ==
    probe.stage = "twice" => (probe.out2 = probe.out /\ ~probe.filtered2)

\* urlparse raises for the URL, or finds no host in it
HostUnparsed(url) == UrlparseRaises(url) \/ netloc(url) = <<>>

----------------------------------------------------------------------------
\* Life cycle of the polling session

\* C20: the session becomes Live only from Connecting, becomes Ended only
\* from Live and only when the transport says the chat is no longer alive, and
\* nothing happens after Ended: no batch is polled, no event is handled, no
\* POST is made, the cooldown map stays as it is.
C20_EndedIsAbsorbing ==
    [][/\ (session # "Live" /\ session' = "Live") => session = "Connecting"
       /\ (session # "Ended" /\ session' = "Ended") =>
             /\ session = "Live"
             /\ last'.kind = "exit"
             /\ last'.report \in {"not_alive", "ChatDataFinished"}
       /\ session = "Ended" => UNCHANGED vars
      ]_vars

\* The chat was found no longer alive after commands had been accepted
C20_Witness ==
    /\ platform = "youtube" /\ session = "Ended"
    /\ last.kind = "exit" /\ last.report = "not_alive"
    /\ user_cooldowns # <<>>

\* The ways main ends, and the report of each
TerminalSessions == {"Ended", "InvalidSession", "TransportError"}

ReportOf(terminal) ==
    CASE terminal = "Ended" -> {"not_alive", "ChatDataFinished"}
      [] terminal = "InvalidSession" -> {"InvalidVideoId"}
      [] terminal = "TransportError" -> {"Exception"}

\* What holds of the three ways to end apart from where TransportError is
\* reached from: nothing follows an end, each end has reports of its own,
\* Ended is reached from Live, InvalidSession from Connecting with the loop
\* never entered and nothing handled or dispatched
TerminalStep ==
    /\ session \notin TerminalSessions
    /\ \A terminal \in TerminalSessions :
          session' = terminal <=> last'.report \in ReportOf(terminal)
    /\ session' = "Ended" => session = "Live" /\ last'.kind = "exit"
    /\ session' = "InvalidSession" =>
          /\ session = "Connecting" /\ last'.kind = "connect"
          /\ last'.posts = 0 /\ last'.input = NoInput
          /\ user_cooldowns' = <<>> /\ now' = 0
          /\ batch' = [at |-> "while", left |-> 0]

\* C21 as stated: the polling adapter ends in exactly one of Ended,
\* InvalidSession and TransportError, each with a report of its own and none
\* followed by another step; InvalidSession is reached only from Connecting
\* with no event handled, and TransportError only from Live.
C21_TransportErrorOnlyFromLive ==
    [][platform = "youtube" =>
         /\ TerminalStep
         /\ session' = "TransportError" => session = "Live"]_vars

\* C21 amended: as above, but TransportError is reached from Live or from
\* Connecting (an exception other than InvalidVideoId that leaves
\* pytchat.create is caught by the same "except Exception")
C21_ThreeTerminalStates ==
    [][platform = "youtube" =>
         /\ TerminalStep
         /\ session' = "TransportError" =>
               /\ session \in {"Connecting", "Live"}
               /\ last'.kind \in {"connect", "exit", "event"}]_vars

\* the connection attempt itself ended main with the transport error report
C21_Witness ==
    /\ platform = "youtube" /\ session = "TransportError"
    /\ last.kind = "connect" /\ last.report = "Exception"

\* C22: with TOKEN or CHANNEL (Twitch) or VIDEO_ID (YouTube) left at the
\* placeholder the adapter refuses to start: the only step it takes is the
\* report of the missing configuration; it never connects, handles no event,
\* dispatches nothing and leaves the cooldown map empty.
C22_PlaceholderRefusesToStart ==
    [][~config.configured =>
         /\ session = "Start" /\ session' = "ConfigError"
         /\ last'.kind = "start" /\ last'.report = "not_configured"
         /\ last'.posts = 0 /\ last'.input = NoInput /\ last'.msgs = <<>>
         /\ user_cooldowns = <<>> /\ user_cooldowns' = <<>>
         /\ UNCHANGED <<now, handlers, batch>>]_vars

\* the entry point has refused the placeholder settings
C22_Witness ==
    /\ ~config.configured /\ session = "ConfigError"
    /\ last.kind = "start" /\ last.report = "not_configured"

----------------------------------------------------------------------------
\* Event classification

\* The step read a chaos command of the Twitch chat
ReadsCommand(step) ==
    /\ platform = "twitch" /\ step.input # NoInput
    /\ ~step.input.echo /\ step.input.is_chaos

\* C23: a Twitch command with no prompt text is answered at once with the
\* usage hint, whatever its bits and whatever cooldown is running: no minimum
\* test, no cooldown check, no filter, no dispatch, no change of the cooldown
\* map.
C23_EmptyPromptGetsUsage ==
    [][ReadsCommand(last') /\ last'.input.prompt = <<>> =>
         /\ last'.kind = "event" /\ last'.outcome = "usage"
         /\ last'.msgs = <<Msg("usage")>>
         /\ last'.paid.gate = "none"
         /\ ~last'.check.evaluated
         /\ ~last'.was_filtered /\ last'.prompt = <<>>
         /\ last'.posts = 0
         /\ UNCHANGED <<user_cooldowns, handlers, now, session>>]_vars

\* a command without a prompt, with too few bits where bits are required, from
\* an author whose cooldown is running, got the usage hint
C23_Witness ==
    /\ ReadsCommand(last) /\ last.input.prompt = <<>>
    /\ config.REQUIRE_BITS /\ last.input.tags = Bits(99)
    /\ is_on_cooldown(user_cooldowns, last.author, now)
    /\ last.outcome = "usage"

\* The step read a plain chat message of the YouTube chat
ReadsPlainChat(step) == platform = "youtube" /\ step.input.type = "textMessage"

\* The message begins with the command and has more than blanks after it
CommandWithText(message) ==
    /\ message # <<>> /\ message[1] = CHAT_COMMAND
    /\ \E i \in 2..Len(message) : message[i] # " "

\* C24: a plain chat message gets as far as the cooldown check, the dispatcher
\* or the cooldown map only where ALLOW_REGULAR_CHAT is set and the message
\* begins with the command and has text after it; every other plain chat
\* message is passed over with no POST and no change of the cooldown map.
C24_PlainChatOnlyWhenEnabled ==
    [][ReadsPlainChat(last') =>
         LET honoured == /\ config.ALLOW_REGULAR_CHAT
                         /\ CommandWithText(last'.input.message)
         IN  /\ honoured <=> last'.check.evaluated
             /\ honoured /\ ~last'.check.result <=> last'.posts = 1
             /\ ~honoured => /\ last'.outcome \in {"not_command", "usage"}
                             /\ last'.posts = 0
                             /\ UNCHANGED <<user_cooldowns, now, session>>
             /\ user_cooldowns' # user_cooldowns => honoured]_vars

\* a chat command was dispatched and accepted where plain chat is enabled
C24_Witness ==
    /\ ReadsPlainChat(last) /\ config.ALLOW_REGULAR_CHAT
    /\ CommandWithText(last.input.message)
    /\ last.posts = 1 /\ last.outcome = "accepted"
    /\ last.author \in DOMAIN user_cooldowns

\* The step read a Super Chat of the YouTube chat
ReadsSuperChat(step) == platform = "youtube" /\ step.input.type = "superChat"

\* C25: a payload without its optional fields is handled like any other.  A
\* Twitch command without tags, or with tags that hold no bits, counts as 0
\* bits; a Super Chat without amount string, currency or moderator flag is
\* handled to the end of the loop body with the amount absent (0, below the
\* minimum) and the sender no moderator; the absence raises nothing and the
\* session stays Live (it leaves Live only where send_to_brain itself raised).
C25_AbsentFieldsTolerated ==
    [][/\ ReadsCommand(last') /\ last'.input.prompt # <<>>
          /\ ~(last'.input.tags.present /\ last'.input.tags.has_bits)
          => /\ last'.paid.amount = 0
             /\ last'.paid.gate = IF config.REQUIRE_BITS THEN "fail" ELSE "pass"
             /\ config.REQUIRE_BITS => last'.outcome = "threshold"
             /\ ~config.REQUIRE_BITS => last'.check.evaluated
             /\ session' = "Live"
       /\ ReadsSuperChat(last')
          /\ \/ ~last'.input.amountString.present
             \/ ~last'.input.currency.present
             \/ ~last'.input.isChatModerator.present
          => /\ last'.kind = "event"
             /\ last'.outcome \in {"threshold", "cooldown", "accepted", "failed", "raised"}
             /\ last'.outcome = "raised" <=> last'.returned.ret = "Raise"
             /\ session' = IF last'.outcome = "raised" THEN "TransportError" ELSE "Live"
             /\ batch'.left = IF last'.outcome = "raised" THEN 0 ELSE batch.left - 1
             /\ ~last'.input.amountString.present =>
                   /\ last'.paid.text = <<"Unknown">> /\ last'.paid.amount = 0
                   /\ last'.outcome = "threshold"
             /\ ~last'.input.isChatModerator.present => ~last'.is_mod]_vars

\* a Super Chat without amount string, currency and moderator flag was handled
\* and the session is still Live
C25_Witness ==
    /\ ReadsSuperChat(last)
    /\ last.input.amountString = NoAmount /\ last.input.currency = NoCurrency
    /\ last.input.isChatModerator = NoFlag
    /\ last.outcome = "threshold" /\ session = "Live"

----------------------------------------------------------------------------
\* Cooldown map

\* C26: the cooldown map only grows.  No step removes an author; an author
\* enters the map in the step that accepts a command of theirs and in no
\* other, and every accepted author is in the map, so that the keys are the
\* authors with an accepted command; the clock does not go back and no
\* author's timestamp decreases.
C26_CooldownMapOnlyGrows ==
    [][/\ session = "Start" => user_cooldowns = <<>>
       /\ DOMAIN user_cooldowns \subseteq DOMAIN user_cooldowns'
       /\ \A a \in DOMAIN user_cooldowns' \ DOMAIN user_cooldowns :
             last'.outcome = "accepted" /\ last'.author = a
       /\ last'.outcome = "accepted" => last'.author \in DOMAIN user_cooldowns'
       /\ now' >= now
       /\ \A a \in DOMAIN user_cooldowns :
             user_cooldowns'[a] >= user_cooldowns[a]]_vars

\* a second author was accepted later than the first, and both are in the map
C26_Witness ==
    /\ last.outcome = "accepted"
    /\ DOMAIN user_cooldowns = Authors
    /\ user_cooldowns[last.author] = now
    /\ \E a \in Authors : user_cooldowns[a] < now

----------------------------------------------------------------------------
\* Polled batches

\* C27: in the polling adapter no event of a polled batch is dropped.  While
\* events of the batch are left the next step handles one of them, in the
\* order of the batch, and the others stay to be handled, however the handling
\* of that event came out; the loop polls again only when none is left.
C27_NoEventOfBatchDropped ==
    [][platform = "youtube" /\ session = "Live" /\ batch.at = "for" =>
         /\ batch.left > 0 => /\ last'.kind = "event"
                              /\ batch'.left = batch.left - 1
         /\ batch'.at = "while" => batch.left = 0]_vars

----------------------------------------------------------------------------
\* Allowlist

\* The lower-cased host, read as one string, holds an allowed domain somewhere
HostHoldsAllowedDomain(url) ==
    \E i \in DOMAIN netloc(url) :
        Lower(netloc(url)[i]) \in {"imgur.com", "i.imgur.com", "notimgur.com"}

\* The step ran filter_urls on the text of the event it read: the Twitch
\* handler up to its first await, the YouTube loop body with its POST
FilterRan(step) ==
    \/ platform = "twitch" /\ step.kind = "await" /\ step.input # NoInput
    \/ platform = "youtube" /\ step.kind = "event" /\ step.posts = 1

RawText(step) ==
    IF platform = "twitch" THEN step.input.prompt ELSE youtube_prompt(step.input)

----------------------------------------------------------------------------
\* Rejections and the cooldown window

\* C29: rejected attempts never extend a cooldown.  A step that does not
\* accept a command leaves every recorded timestamp as it was, so the
\* timestamp of an author is the time T of their last accepted command; and
\* a command of that author that comes to the cooldown check at a time
\* t >= T + COOLDOWN_SECONDS is not turned down by it.
C29_RejectionsDoNotExtendCooldown ==
    [][/\ last'.outcome # "accepted" => user_cooldowns' = user_cooldowns
       /\ last'.outcome = "accepted" =>
             /\ user_cooldowns'[last'.author] = now'
             /\ \A a \in DOMAIN user_cooldowns \ {last'.author} :
                   user_cooldowns'[a] = user_cooldowns[a]
       /\ /\ last'.check.evaluated
          /\ last'.author \in DOMAIN user_cooldowns
          /\ now >= user_cooldowns[last'.author] + COOLDOWN_SECONDS
          => /\ ~last'.check.result
             /\ last'.outcome # "cooldown"]_vars

\* a command of an author with an accepted command COOLDOWN_SECONDS or more
\* ago has passed the cooldown check
C29_Witness ==
    /\ platform = "twitch" /\ last.kind = "await"
    /\ last.check.evaluated /\ ~last.check.result
    /\ last.author \in DOMAIN user_cooldowns
    /\ now >= user_cooldowns[last.author] + COOLDOWN_SECONDS

----------------------------------------------------------------------------
\* Event type

\* C30: in the polling adapter the type of the event decides its path, not
\* its text.  A Super Chat always meets the minimum-amount test and is never
\* handled as plain chat: below the minimum it is not dispatched, also where
\* plain chat is enabled and its text begins with the command, and where it
\* is dispatched its whole message is the prompt.  A plain chat command is
\* handled without any amount test.
C30_TypeDecidesPath ==
    [][/\ ReadsSuperChat(last') =>
             /\ last'.paid.required /\ last'.paid.gate \in {"pass", "fail"}
             /\ last'.paid.gate = "pass" <=> last'.paid.amount >= MIN_SUPER_CHAT_AMOUNT
             /\ last'.paid.gate = "fail" =>
                   /\ last'.outcome = "threshold" /\ last'.posts = 0
                   /\ UNCHANGED user_cooldowns
             /\ last'.outcome \notin {"usage", "not_command"}
             /\ last'.posts = 1 /\ ~last'.was_filtered =>
                   last'.prompt = last'.input.message
       /\ ReadsPlainChat(last') =>
             /\ ~last'.paid.required /\ last'.paid.amount = 0
             /\ last'.outcome # "threshold"
             /\ /\ config.ALLOW_REGULAR_CHAT
                /\ CommandWithText(last'.input.message)
                /\ ~last'.check.result
                => last'.posts = 1]_vars

\* a Super Chat below the minimum whose text begins with the command was not
\* dispatched although plain chat is enabled
C30_Witness ==
    /\ ReadsSuperChat(last) /\ config.ALLOW_REGULAR_CHAT
    /\ StartsWithCommand(last.input.message)
    /\ last.paid.amount < MIN_SUPER_CHAT_AMOUNT
    /\ last.outcome = "threshold" /\ last.posts = 0

----------------------------------------------------------------------------
\* Termination of the handling

\* The ways the handling of an event may end: not a command or ignored (the
\* bot's own message), usage hint, below the minimum, on cooldown, accepted,
\* dispatch failed
HandlingOutcomes ==
    {"not_command", "echo", "usage", "threshold", "cooldown", "accepted", "failed"}

\* C31: the handling of every inbound event ends, the backend call having
\* returned or timed out, in one of: not a command or ignored, usage hint,
\* below the minimum, on cooldown, accepted, dispatch failed; and the adapter
\* is then ready for the next event (the session is Live, the Twitch handler
\* is gone from its slot, the YouTube loop is in its batch).
C31_EveryHandlingEndsInAnOutcome ==
    [][last'.kind = "event" =>
         /\ last'.outcome \in HandlingOutcomes
         /\ session' = "Live"
         /\ platform = "twitch" =>
               \A h \in Handlers :
                   handlers'[h] # handlers[h] => handlers'[h] = Idle
         /\ platform = "youtube" => batch'.at = "for"]_vars

====
